---- MODULE Spec2Model ----
(***************************************************************************)
(* Row pooling and reconciliation of the style pane                        *)
(* (studio/feature/stylepane.py): ReusableStyleItem and its pool, the      *)
(* three StyleGroup specialisations and the StylePane that routes          *)
(* selection, layout and search events to them.                            *)
(***************************************************************************)
EXTENDS Integers, Sequences, FiniteSets, TLC

\* Largest number of rows the model lets the pool construct for one
\* (group, property name); a handler that would need one more is cut off.
MaxPerKey == 2

\* Largest number of calls made in one run on a group or a row directly
\* (add, remove, destroy, on_widget_change, apply) rather than through the pane
MaxCalls == 1

None == "None"

\* ---------------------------------------------------------------------
\* The selected objects (the host application's widgets) and what they
\* expose to the groups.
\* ---------------------------------------------------------------------
Objects == {"X", "Y", "Z", "V", "U", "W"}

ClassOf(o) ==
  CASE o = "X" -> "Foo"
    [] o = "Y" -> "Foo"
    [] o = "Z" -> "Bar"
    [] o = "V" -> "Qux"
    [] o = "U" -> "Quux"
    [] o = "W" -> "Baz"
    [] OTHER -> "NoneType"

\* hasattr(widget, 'identity'), hasattr(widget, 'properties'), widget.layout
HasIdentity(o) == o \in {"X", "Y", "Z", "V", "U"}
HasProperties(o) == o \in {"X", "Y", "Z"}
HasLayout(o) == o \in {"X", "Y", "Z", "V"}

LayoutObjects == {o \in Objects : HasLayout(o)}
\* The objects the designer moves between layout strategies
Movable == {"X"}
LayoutClasses == {"Pack", "Place"}

\* The search strings the filter chrome sends
Queries == {<<"i">>, <<"C">>}

Def(n, d, v) == [name |-> n, display_name |-> d, value |-> v]

\* widget.identity: the same two keys for every widget that has one
Identity(o) ==
  << Def("class", <<"c", "l">>, ClassOf(o)), Def("id", <<"i", "d">>, o) >>

\* widget.layout.definition_for(widget): the keys are those of the strategy
DefinitionFor(o, strategy) ==
  CASE strategy = "Pack" -> << Def("side", <<"S", "d">>, o) >>
    [] strategy = "Place" -> << Def("size", <<"s", "i">>, o) >>
    [] OTHER -> << >>

\* ---------------------------------------------------------------------
\* Generic helpers
\* ---------------------------------------------------------------------
Range(f) == {f[x] : x \in DOMAIN f}
Put(f, k, v) == [x \in (DOMAIN f) \cup {k} |-> IF x = k THEN v ELSE f[x]]
Drop(f, k) == [x \in (DOMAIN f) \ {k} |-> f[x]]
EmptyMap == [x \in {} |-> x]
Names(defs) == {defs[i].name : i \in DOMAIN defs}

\* Python's `query in label` on strings
Contains(q, label) ==
  \E i \in 0..(Len(label) - Len(q)) : SubSeq(label, i + 1, i + Len(q)) = q

Groups == {"Identity", "Layout", "Attribute"}
\* StylePane.__init__ registers the groups in this order
GroupOrder == <<"Identity", "Layout", "Attribute">>

VARIABLES
  rows,             \* every ReusableStyleItem constructed so far
  pool,             \* ReusableStyleItem._pool: group -> name -> row
  widget,           \* StyleGroup._widget, per group
  prev_widget,      \* StyleGroup._prev_widget, per group
  has_initialized,  \* StyleGroup._has_initialized, per group
  items,            \* StyleGroup.items, per group: name -> row
  collapsed,        \* CollapseFrame state of each group
  prev_layout,      \* LayoutGroup._prev_layout (the strategy's class)
  label,            \* LayoutGroup.label
  current,          \* StylePane._current
  placeholder,      \* what StylePane._empty_frame shows: empty, loading, none
  layoutOf,         \* the layout strategy each object is managed by
  op,               \* the operation that produced this state
  acquired,         \* what each acquire of that operation returned
  evaluated,        \* what each can_optimize of that operation saw
  completed,        \* the on_widget_change calls that operation completed
  trail,            \* the completed selections and deselections just made
  filtered_from,    \* the rows on screen when the running search began
  invoked,          \* the groups whose on_widget_change that operation called
  applied,          \* what each apply of that operation was given and logged
  rebound,          \* what each _re_purposed of that operation did to the callback
  inputs,           \* the objects and queries this run is driven with
  calls             \* how many direct calls on a group or a row so far

vars == << rows, pool, widget, prev_widget, has_initialized, items, collapsed,
           prev_layout, label, current, placeholder, layoutOf, op, acquired,
           evaluated, completed, trail, filtered_from, invoked,
           applied, rebound, inputs, calls >>

\* widget.properties: the keys are those of the widget's class
Properties(o) ==
  CASE o = "X" -> << Def("color", <<"C", "o">>, "red"),
                     Def("size", <<"S", "i">>, "10") >>
    [] o = "Y" -> << Def("color", <<"C", "o">>, "blue"),
                     Def("size", <<"S", "i">>, "20") >>
    [] o = "Z" -> << Def("weight", <<"W", "e">>, "5"),
                     Def("color", <<"H", "u">>, "teal") >>
    [] OTHER -> << >>

\* ---------------------------------------------------------------------
\* The program state a handler works on, threaded through its steps.
\* raised: an exception is propagating; overflow: MaxPerKey was reached;
\* ret: the row the last acquire returned.
\* ---------------------------------------------------------------------
Machine ==
  [rows |-> rows, pool |-> pool, widget |-> widget,
   prev_widget |-> prev_widget, has_initialized |-> has_initialized,
   items |-> items, collapsed |-> collapsed, prev_layout |-> prev_layout,
   label |-> label, current |-> current, placeholder |-> placeholder,
   raised |-> FALSE, overflow |-> FALSE, ret |-> None,
   acquired |-> {}, evaluated |-> {}, completed |-> {}, invoked |-> << >>,
   applied |-> {}, rebound |-> {}]

Raise(m) == [m EXCEPT !.raised = TRUE]

\* ReusableStyleItem._make_available
MakeAvailable(m, r, flag) == [m EXCEPT !.rows[r].is_available = flag]

\* The <Map> binding written like the <Unmap> one
OnMapAvailable(m, r) == MakeAvailable(m, r, TRUE)

\* The <Unmap> binding left out
OnUnmapIgnored(m, r) == m

\* The <Map> and <Unmap> bindings made by ReusableStyleItem.__init__
OnMap(m, r) == MakeAvailable(m, r, FALSE)
OnUnmap(m, r) == MakeAvailable(m, r, TRUE)

\* A row is on screen when it is packed and its group's body is not collapsed
Mapped(m, r) == m.rows[r].packed /\ ~m.collapsed[m.rows[r].parent]

\* item.pack(...): the toolkit maps the row, which fires <Map>, at once
Pack(m, r) ==
  IF m.rows[r].destroyed THEN Raise(m)
  ELSE IF m.rows[r].packed THEN m
  ELSE LET m1 == [m EXCEPT !.rows[r].packed = TRUE]
       IN IF Mapped(m1, r) THEN OnMap(m1, r) ELSE m1

\* item.pack_forget(): the toolkit unmaps the row, which fires <Unmap>
PackForget(m, r) ==
  IF m.rows[r].destroyed THEN Raise(m)
  ELSE IF ~m.rows[r].packed THEN m
  ELSE LET m1 == [m EXCEPT !.rows[r].packed = FALSE]
       IN IF Mapped(m, r) THEN OnUnmap(m1, r) ELSE m1

RECURSIVE ForgetAll(_, _)
ForgetAll(m, S) ==
  IF S = {} \/ m.raised THEN m
  ELSE LET r == CHOOSE x \in S : TRUE
       IN ForgetAll(PackForget(m, r), S \ {r})

RECURSIVE UnmapAll(_, _)
UnmapAll(m, S) ==
  IF S = {} THEN m
  ELSE LET r == CHOOSE x \in S : TRUE
       IN UnmapAll(OnUnmap(m, r), S \ {r})

\* The rows living in group g's body (destroyed ones are no longer children)
ChildrenOf(m, g) ==
  {r \in DOMAIN m.rows : m.rows[r].parent = g /\ ~m.rows[r].destroyed}

\* CollapseFrame.clear_children: forget every child of the body
ClearChildren(m, g) == ForgetAll(m, ChildrenOf(m, g))

\* CollapseFrame.collapse: the body is forgotten, which unmaps what it shows
Collapse(m, g) ==
  IF m.collapsed[g] THEN m
  ELSE UnmapAll([m EXCEPT !.collapsed[g] = TRUE],
                {r \in ChildrenOf(m, g) : Mapped(m, r)})

\* ---------------------------------------------------------------------
\* ReusableStyleItem
\* ---------------------------------------------------------------------
\* The n-th row constructed for (parent, name) is <<parent, name, n>>
Built(m, parent, name) ==
  Cardinality({r \in DOMAIN m.rows : r[1] = parent /\ r[2] = name})

\* ReusableStyleItem.__init__; of self.definition, which StyleItem.__init__
\* sets, only the display name is ever read
Construct(m, parent, def, on_change) ==
  LET id == <<parent, def.name, Built(m, parent, def.name) + 1>>
      row == [parent |-> parent, name |-> def.name, value |-> def.value,
              label |-> def.display_name,
              definition |-> [display_name |-> def.display_name],
              on_change |-> on_change, is_available |-> TRUE,
              packed |-> FALSE, destroyed |-> FALSE]
  IN IF id[3] > MaxPerKey THEN [m EXCEPT !.overflow = TRUE, !.raised = TRUE]
     ELSE [m EXCEPT !.rows = Put(@, id, row),
                    !.pool[parent] = Put(@, def.name, id),
                    !.ret = id]

\* A _re_purposed call that returned: the callback it was given, the one the
\* row had before, those in place while name, value and label were assigned,
\* and the one in place at the return
ReboundRecord(r, on_change, before, during, after) ==
  [row |-> r, supplied |-> on_change, before |-> before, during |-> during,
   after |-> after]

\* The steps of _re_purposed, with the editor's set(...) kept or left out and
\* the callback set to None for their duration or left in place: temp is the
\* callback after the optional rebinding, held the one in place while name,
\* value and label are assigned. The editor and the label of a destroyed row
\* cannot be written: the toolkit raises after the name was assigned, with
\* the callback as it then is.
RePurposedSteps(m, r, def, on_change, sets_value, suspends) ==
  LET before == m.rows[r].on_change
      temp == IF on_change # None THEN on_change ELSE before
      held == IF suspends THEN None ELSE temp
  IN IF m.rows[r].destroyed
     THEN Raise([m EXCEPT !.rows[r].on_change = held,
                          !.rows[r].name = def.name])
     ELSE [m EXCEPT !.rows[r].name = def.name,
                    !.rows[r].value = IF sets_value THEN def.value ELSE @,
                    !.rows[r].label = def.display_name,
                    !.rows[r].on_change = temp,
                    !.ret = r,
                    !.rebound = @ \cup
                      {ReboundRecord(r, on_change, before, {held}, temp)}]

\* _re_purposed without self._editor.set(...)
RePurposedKeepValue(m, r, def, on_change) ==
  RePurposedSteps(m, r, def, on_change, FALSE, TRUE)

\* _re_purposed without self._on_change = None
RePurposedLive(m, r, def, on_change) ==
  RePurposedSteps(m, r, def, on_change, TRUE, FALSE)

\* ReusableStyleItem._re_purposed: self.definition is left as it was
RePurposed(m, r, def, on_change) ==
  RePurposedSteps(m, r, def, on_change, TRUE, TRUE)

\* acquire taking any available row of the scope, whatever its name
AcquireAnyName(m, parent, def, on_change) ==
  LET pl == m.pool[parent]
      free == {k \in DOMAIN pl : m.rows[pl[k]].is_available}
  IN IF free # {}
     THEN RePurposed(m, pl[CHOOSE k \in free : TRUE], def, on_change)
     ELSE Construct(m, parent, def, on_change)

\* acquire on a pool keyed by name alone, shared by all scopes
AcquireAcrossScopes(m, parent, def, on_change) ==
  LET foreign == {g \in Groups \ {parent} :
                    /\ def.name \in DOMAIN m.pool[g]
                    /\ m.rows[m.pool[g][def.name]].is_available}
      pl == m.pool[IF foreign # {} THEN CHOOSE g \in foreign : TRUE ELSE parent]
  IN IF pl # EmptyMap /\ def.name \in DOMAIN pl
        /\ m.rows[pl[def.name]].is_available
     THEN RePurposed(m, pl[def.name], def, on_change)
     ELSE Construct(m, parent, def, on_change)

\* ReusableStyleItem.acquire
Acquire(m, parent, def, on_change) ==
  LET pl == m.pool[parent]
  IN IF pl # EmptyMap /\ def.name \in DOMAIN pl
        /\ m.rows[pl[def.name]].is_available
     THEN RePurposed(m, pl[def.name], def, on_change)
     ELSE Construct(m, parent, def, on_change)

\* What an acquire call returned, against the state it was called in
AcquireRecord(before, after, parent, def) ==
  LET r == after.ret
      fresh == r \notin DOMAIN before.rows
  IN [scope |-> parent, name |-> def.name, row |-> r, fresh |-> fresh,
      registered |-> /\ def.name \in DOMAIN before.pool[parent]
                     /\ before.pool[parent][def.name] = r,
      available |-> IF fresh THEN TRUE ELSE before.rows[r].is_available,
      shown |-> \E g \in Groups : r \in Range(before.items[g])]

\* `self in pool` and `pool.pop(self)` compare a key of the pool, a str,
\* with the row object: never equal
IsSelf(key, r) == FALSE

\* ReusableStyleItem.destroy: `self in pool` tests the pool's keys, which are
\* names, so the pop never runs; the toolkit then destroys the widget, and
\* whether its <Unmap> binding still fires is up to the toolkit.
Destroyed(m, r, unmapFires) ==
  LET m1 == [m EXCEPT !.pool[m.rows[r].parent] =
                        IF \E k \in DOMAIN @ : IsSelf(k, r)
                        THEN Drop(@, CHOOSE k \in DOMAIN @ : IsSelf(k, r))
                        ELSE @,
                      !.rows[r].destroyed = TRUE,
                      !.rows[r].packed = FALSE]
  IN IF Mapped(m, r) /\ unmapFires THEN OnUnmap(m1, r) ELSE m1

\* ---------------------------------------------------------------------
\* StyleGroup and its specialisations
\* ---------------------------------------------------------------------
Dict(defs) == [kind |-> "dict", defs |-> defs]
NoDict(kind) == [kind |-> kind, defs |-> << >>]

\* get_definition of IdentityGroup, AttributeGroup and LayoutGroup
GetDefinition(m, g) ==
  LET w == m.widget[g]
  IN CASE g = "Identity" ->
            IF HasIdentity(w) THEN Dict(Identity(w)) ELSE NoDict("None")
       [] g = "Attribute" ->
            IF HasProperties(w) THEN Dict(Properties(w)) ELSE Dict(<< >>)
       [] g = "Layout" ->
            IF w = None THEN Dict(<< >>)
            ELSE IF HasLayout(w) THEN Dict(DefinitionFor(w, layoutOf[w]))
            ELSE NoDict("AttributeError")

\* LayoutGroup.can_optimize without `self.widget == self._prev_widget`
CanOptimizeAnyWidget(m, g) ==
  CASE g = "Identity" -> m.has_initialized[g]
    [] g = "Attribute" ->
         /\ ClassOf(m.widget[g]) = ClassOf(m.prev_widget[g])
         /\ m.has_initialized[g]
    [] g = "Layout" -> layoutOf[m.widget[g]] = m.prev_layout

\* can_optimize of IdentityGroup, AttributeGroup and LayoutGroup
CanOptimize(m, g) ==
  CASE g = "Identity" -> m.has_initialized[g]
    [] g = "Attribute" ->
         /\ ClassOf(m.widget[g]) = ClassOf(m.prev_widget[g])
         /\ m.has_initialized[g]
    [] g = "Layout" ->
         /\ layoutOf[m.widget[g]] = m.prev_layout
         /\ m.widget[g] = m.prev_widget[g]

\* StyleGroup._show and StyleGroup._hide
Show(m, r) == Pack(m, r)
Hide(m, r) == PackForget(m, r)

\* StyleGroup.add
Add(m, g, r) == Show([m EXCEPT !.items[g] = Put(@, m.rows[r].name, r)], r)

\* StyleGroup.remove
Remove(m, g, r) ==
  Hide([m EXCEPT !.items[g] = IF m.rows[r].name \in DOMAIN @
                              THEN Drop(@, m.rows[r].name) ELSE @], r)

\* The key set of the definitions the group fetched for the object its rows
\* were last populated for
PrevKeys(m, g) ==
  LET p == m.prev_widget[g]
  IN CASE p = None -> {}
       [] g = "Identity" -> IF HasIdentity(p) THEN Names(Identity(p)) ELSE {}
       [] g = "Attribute" -> Names(Properties(p))
       [] g = "Layout" -> Names(DefinitionFor(p, m.prev_layout))

\* What a can_optimize call that answered true saw
EvaluateRecord(m, g, d, result) ==
  [group |-> g, widget |-> m.widget[g], result |-> result,
   is_dict |-> result => d.kind = "dict",
   keys |-> IF result THEN Names(d.defs) ELSE {},
   prev_keys |-> IF result THEN PrevKeys(m, g) ELSE {},
   item_keys |-> IF result THEN DOMAIN m.items[g] ELSE {}]

\* An on_widget_change call that ran to its end, and what it had fetched
CompleteRecord(g, w, d, fast) ==
  [group |-> g, widget |-> w, keys |-> Names(d.defs), fast |-> fast]

\* on_widget_change, the fast path: for prop in definitions:
\*     self.items[prop]._re_purposed(definitions[prop])
RECURSIVE Refresh(_, _, _, _)
Refresh(m, g, defs, i) ==
  IF m.raised \/ i > Len(defs) THEN m
  ELSE IF defs[i].name \notin DOMAIN m.items[g] THEN Raise(m)
  ELSE Refresh(RePurposed(m, m.items[g][defs[i].name], defs[i], None),
               g, defs, i + 1)

\* on_widget_change, the rebuild path's
\*     map(lambda p: add(ReusableStyleItem.acquire(self, definitions[p], self.apply)))
\* with m1 the pane as acquire left the pane m
AddAcquired(m, m1, g, def) ==
  IF m1.raised THEN m1
  ELSE Add([m1 EXCEPT !.acquired = @ \cup {AcquireRecord(m, m1, g, def)}],
           g, m1.ret)

RECURSIVE Populate(_, _, _, _)
Populate(m, g, defs, i) ==
  IF m.raised \/ i > Len(defs) THEN m
  ELSE Populate(AddAcquired(m, Acquire(m, g, defs[i], g), g, defs[i]),
                g, defs, i + 1)

\* The rebuild path without self.items.clear()
RebuildKeepItems(m, g, d) ==
  LET m1 == ClearChildren(m, g)
  IN IF m1.raised THEN m1
     ELSE IF d.kind # "dict" THEN Raise(m1)
     ELSE Populate(m1, g, d.defs, 1)

\* The rebuild path: clear_children, items.clear, then acquire and add
Rebuild(m, g, d) ==
  LET m1 == ClearChildren(m, g)
      m2 == [m1 EXCEPT !.items[g] = EmptyMap]
  IN IF m1.raised THEN m1
     ELSE IF d.kind # "dict" THEN Raise(m2)
     ELSE Populate(m2, g, d.defs, 1)

\* The fast path: iterating over None raises
FastPath(m, g, d) ==
  IF d.kind # "dict" THEN Raise(m) ELSE Refresh(m, g, d.defs, 1)

\* What group g shows: its keys, those on screen, what each is bound to, and
\* the availability of each of the group's rows
Observed(m, g) ==
  [keys |-> DOMAIN m.items[g],
   visible |-> {k \in DOMAIN m.items[g] : Mapped(m, m.items[g][k])},
   bound |-> [k \in DOMAIN m.items[g] |->
                <<m.rows[m.items[g][k]].value, m.rows[m.items[g][k]].label>>],
   available |-> [r \in ChildrenOf(m, g) |-> m.rows[r].is_available]]

\* Whether, where can_optimize answered true for fetched definitions, the
\* rebuild path would have left the group showing what the fast path leaves
SamePathRecord(m, g, d, result) ==
  [same |-> (result /\ d.kind = "dict")
              => Observed(FastPath(m, g, d), g) = Observed(Rebuild(m, g, d), g)]

\* on_widget_change from can_optimize on: its answer is noted, then one of
\* the two paths runs
Paths(m, g, d, opt) ==
  LET m2 == [m EXCEPT !.evaluated = @ \cup
               {EvaluateRecord(m, g, d, opt) @@ SamePathRecord(m, g, d, opt)}]
  IN IF opt THEN FastPath(m2, g, d) ELSE Rebuild(m2, g, d)

\* The end of on_widget_change, which a path that raised does not reach
Initialized(m, g, w, d, opt) ==
  IF m.raised THEN m
  ELSE [m EXCEPT !.has_initialized[g] = TRUE, !.prev_widget[g] = w,
                 !.completed = @ \cup {CompleteRecord(g, w, d, opt)}]

\* StyleGroup.on_widget_change
OnWidgetChange(m, g, w) ==
  LET m1 == [m EXCEPT !.widget[g] = w]
      d == GetDefinition(m1, g)
      opt == CanOptimize(m1, g)
  IN IF w = None THEN Collapse(m1, g)
     ELSE IF d.kind = "AttributeError" THEN Raise(m1)
     ELSE Initialized(Paths(m1, g, d, opt), g, w, d, opt)

\* LayoutGroup.on_widget_change after super().on_widget_change(widget):
\* widget.layout is read before `if widget`
LayoutRecorded(m, w) ==
  IF m.raised THEN m
  ELSE IF w = None \/ ~HasLayout(w) THEN Raise(m)
  ELSE [m EXCEPT !.prev_layout = layoutOf[w],
                 !.label = <<"Layout", layoutOf[w]>>]

\* LayoutGroup.on_widget_change
LayoutOnWidgetChange(m, w) ==
  LayoutRecorded(OnWidgetChange(m, "Layout", w), w)

\* group.on_widget_change(widget), as dispatched on the group's class
GroupOnWidgetChange(m, g, w) ==
  LET m0 == [m EXCEPT !.invoked = Append(@, g)]
  IN IF g = "Layout" THEN LayoutOnWidgetChange(m0, w)
     ELSE OnWidgetChange(m0, g, w)

\* The values a row's editor hands to apply: the empty string and another
Values == {"", "1"}

\* An apply call: what it was given, whether the write raised, and how many
\* entries it sent to logging
ApplyRecord(g, prop, value, rejected, entries) ==
  [group |-> g, prop |-> prop, value |-> value, rejected |-> rejected,
   entries |-> entries]

\* StyleGroup.apply: nothing without a widget; a write that raises is logged
\* (two entries) unless the value is the empty string. A write that succeeds
\* changes the widget, not the pane.
StyleApply(m, g, prop, value, rejects) ==
  IF m.widget[g] = None THEN m
  ELSE [m EXCEPT !.applied = @ \cup
          {ApplyRecord(g, prop, value, rejects,
                       IF rejects /\ value # "" THEN 2 ELSE 0)}]

\* LayoutGroup.apply: a write that raises, as it also does when there is no
\* widget or no layout to write to, is logged (one entry) whatever the value
LayoutApply(m, prop, value, rejects) ==
  LET w == m.widget["Layout"]
      raises == rejects \/ w = None \/ ~HasLayout(w)
  IN [m EXCEPT !.applied = @ \cup
        {ApplyRecord("Layout", prop, value, raises, IF raises THEN 1 ELSE 0)}]

\* group.apply(prop, value), as dispatched on the group's class
GroupApply(m, g, prop, value, rejects) ==
  IF g = "Layout" THEN LayoutApply(m, prop, value, rejects)
  ELSE StyleApply(m, g, prop, value, rejects)

\* The order in which a dict built by Populate yields its keys
KeyOrder == <<"class", "id", "side", "weight", "color", "size">>
ItemOrder(m, g) == SelectSeq(KeyOrder, LAMBDA k : k \in DOMAIN m.items[g])

\* StyleGroup.on_search_query
RECURSIVE SearchItems(_, _, _, _, _)
SearchItems(m, g, query, order, i) ==
  IF m.raised \/ i > Len(order) THEN m
  ELSE LET r == m.items[g][order[i]]
           m1 == IF Contains(query, m.rows[r].definition.display_name)
                 THEN Show(m, r) ELSE Hide(m, r)
       IN SearchItems(m1, g, query, order, i + 1)

GroupOnSearchQuery(m, g, query) ==
  SearchItems(m, g, query, ItemOrder(m, g), 1)

\* on_search_clear leaving the rows as the last query left them
GroupOnSearchClearKeep(m, g) == m

\* StyleGroup.on_search_clear
GroupOnSearchClear(m, g) == GroupOnSearchQuery(m, g, << >>)

\* ---------------------------------------------------------------------
\* StylePane
\* ---------------------------------------------------------------------
\* show_empty, show_loading and remove_empty
ShowEmpty(m) == [m EXCEPT !.placeholder = "empty"]
ShowLoading(m) == [m EXCEPT !.placeholder = "loading"]
RemoveEmpty(m) == [m EXCEPT !.placeholder = "none"]

\* styles_for once the groups were told: a failure among them skips
\* remove_empty
Loaded(m) == IF m.raised THEN m ELSE RemoveEmpty(m)

\* The groups visited last to first
RECURSIVE ForGroupsBackwards(_, _, _)
ForGroupsBackwards(m, w, i) ==
  IF m.raised \/ i > Len(GroupOrder) THEN m
  ELSE ForGroupsBackwards(
         GroupOnWidgetChange(m, GroupOrder[Len(GroupOrder) + 1 - i], w), w, i + 1)

\* for group in self.groups: group.on_widget_change(widget)
RECURSIVE ForGroups(_, _, _)
ForGroups(m, w, i) ==
  IF m.raised \/ i > Len(GroupOrder) THEN m
  ELSE ForGroups(GroupOnWidgetChange(m, GroupOrder[i], w), w, i + 1)

\* styles_for without its early return: None is forwarded to the groups
StylesForForwarding(m, w) ==
  LET m1 == [m EXCEPT !.current = w]
      m2 == ForGroups(ShowLoading(m1), w, 1)
  IN IF m2.raised THEN m2
     ELSE IF w = None THEN ShowEmpty(m2)
     ELSE RemoveEmpty(m2)

\* styles_for emptying every group's items when nothing is selected
StylesForForgetting(m, w) ==
  LET m1 == [m EXCEPT !.current = w]
      m2 == ForGroups(ShowLoading(m1), w, 1)
  IN IF w = None
     THEN ShowEmpty([m1 EXCEPT !.items = [g \in Groups |-> EmptyMap]])
     ELSE IF m2.raised THEN m2
     ELSE RemoveEmpty(m2)

\* StylePane.styles_for (on_select and on_widget_change forward to it)
StylesFor(m, w) ==
  LET m1 == [m EXCEPT !.current = w]
  IN IF w = None THEN ShowEmpty(m1)
     ELSE Loaded(ForGroups(ShowLoading(m1), w, 1))

\* StylePane.layout_for (on_widget_layout_change forwards to it)
LayoutFor(m, w) == LayoutOnWidgetChange(m, w)

\* for group in self.groups: group.on_search_query(query)
RECURSIVE SearchGroups(_, _, _)
SearchGroups(m, query, i) ==
  IF m.raised \/ i > Len(GroupOrder) THEN m
  ELSE SearchGroups(GroupOnSearchQuery(m, GroupOrder[i], query), query, i + 1)

\* StylePane.on_search_query
OnSearchQuery(m, query) == SearchGroups(m, query, 1)

\* StylePane.on_search_clear
RECURSIVE ClearGroups(_, _)
ClearGroups(m, i) ==
  IF m.raised \/ i > Len(GroupOrder) THEN m
  ELSE ClearGroups(GroupOnSearchClear(m, GroupOrder[i]), i + 1)

OnSearchClear(m) == ClearGroups(m, 1)

\* ---------------------------------------------------------------------
\* The state machine
\* ---------------------------------------------------------------------
Op(name, arg, m) == [name |-> name, arg |-> arg, raised |-> m.raised]

\* The run of completed selections and deselections that ends with this
\* operation, as far as it reads <<a>>, <<a, b>>, <<a, None>> or
\* <<a, None, a>> for objects a and b
Trail(name, w, m) ==
  LET last == IF trail = << >> THEN None ELSE trail[Len(trail)]
  IN IF name # "styles_for" \/ m.raised THEN << >>
     ELSE IF w = None THEN (IF last = None THEN << >> ELSE <<last, None>>)
     ELSE IF trail = <<w, None>> THEN <<w, None, w>>
     ELSE IF last = None THEN <<w>>
     ELSE <<last, w>>

\* The rows on screen
VisibleRows(m) == {r \in DOMAIN m.rows : Mapped(m, r)}

\* While queries follow one another, and on the clear that ends them, the
\* rows that were on screen before the first of them
FilteredFrom(name) ==
  IF op.name = "on_search_query" /\ name \in {"on_search_query", "on_search_clear"}
  THEN filtered_from
  ELSE IF name = "on_search_query" THEN VisibleRows(Machine)
  ELSE {}

\* The operations called on a group or a row, not on the pane
DirectCalls == {"add", "remove", "destroy", "on_widget_change", "apply"}

\* The handler's result becomes the next state
Commit(m, name, arg) ==
  /\ ~m.overflow
  /\ rows' = m.rows
  /\ pool' = m.pool
  /\ widget' = m.widget
  /\ prev_widget' = m.prev_widget
  /\ has_initialized' = m.has_initialized
  /\ items' = m.items
  /\ collapsed' = m.collapsed
  /\ prev_layout' = m.prev_layout
  /\ label' = m.label
  /\ current' = m.current
  /\ placeholder' = m.placeholder
  /\ op' = Op(name, arg, m)
  /\ acquired' = m.acquired
  /\ evaluated' = m.evaluated
  /\ completed' = m.completed
  /\ trail' = Trail(name, arg, m)
  /\ filtered_from' = FilteredFrom(name)
  /\ invoked' = m.invoked
  /\ applied' = m.applied
  /\ rebound' = m.rebound
  /\ calls' = IF name \in DirectCalls THEN calls + 1 ELSE calls
  /\ UNCHANGED << layoutOf, inputs >>

InitWith(objects, queries) ==
  /\ inputs = [objects |-> objects, queries |-> queries]
  /\ rows = EmptyMap
  /\ pool = [g \in Groups |-> EmptyMap]
  /\ widget = [g \in Groups |-> None]
  /\ prev_widget = [g \in Groups |-> None]
  /\ has_initialized = [g \in Groups |-> FALSE]
  /\ items = [g \in Groups |-> EmptyMap]
  /\ collapsed = [g \in Groups |-> FALSE]
  /\ prev_layout = None
  /\ label = <<"Layout">>
  /\ current = None
  /\ placeholder = "empty"
  /\ layoutOf = [o \in LayoutObjects |-> IF o = "Z" THEN "Place" ELSE "Pack"]
  /\ op = [name |-> "init", arg |-> None, raised |-> FALSE]
  /\ acquired = {}
  /\ evaluated = {}
  /\ completed = {}
  /\ trail = << >>
  /\ filtered_from = {}
  /\ invoked = << >>
  /\ applied = {}
  /\ rebound = {}
  /\ calls = 0

\* The pane as constructed; the runs of Spec select every object but V and
\* U, which SpecMissing selects
Init == InitWith(Objects \ {"V", "U"}, Queries)

\* The studio selects a widget, or nothing
Select(w) == Commit(StylesFor(Machine, w), "styles_for", w)

\* The studio reports that the layout of a widget (or of none) changed
LayoutChanged(w) == Commit(LayoutFor(Machine, w), "layout_for", w)

\* The search bar sends a query, or is closed
SearchQuery(q) == Commit(OnSearchQuery(Machine, q), "on_search_query", q)
SearchClear == Commit(OnSearchClear(Machine), "on_search_clear", None)

\* The designer moves a widget under another layout strategy
Relayout(o) ==
  /\ layoutOf' = [layoutOf EXCEPT ![o] = IF @ = "Pack" THEN "Place" ELSE "Pack"]
  /\ op' = [name |-> "relayout", arg |-> o, raised |-> FALSE]
  /\ acquired' = {}
  /\ evaluated' = {}
  /\ completed' = {}
  /\ trail' = << >>
  /\ filtered_from' = {}
  /\ invoked' = << >>
  /\ applied' = {}
  /\ rebound' = {}
  /\ UNCHANGED << rows, pool, widget, prev_widget, has_initialized, items,
                  collapsed, prev_layout, label, current, placeholder,
                  inputs, calls >>

\* A caller of the group's own interface adds or removes one of its rows
AddRow(g, r) == calls < MaxCalls /\ Commit(Add(Machine, g, r), "add", g)
RemoveRow(g, r) ==
  calls < MaxCalls /\ Commit(Remove(Machine, g, r), "remove", g)

\* A row is destroyed
DestroyRow(r, unmapFires) ==
  /\ ~rows[r].destroyed
  /\ calls < MaxCalls
  /\ Commit(Destroyed(Machine, r, unmapFires), "destroy", rows[r].parent)

Next ==
  \/ \E w \in inputs.objects \cup {None} : Select(w)
  \/ \E w \in Movable \cup {None} : LayoutChanged(w)
  \/ \E q \in inputs.queries : SearchQuery(q)
  \/ SearchClear
  \/ \E o \in Movable : Relayout(o)

\* Selections, deselections, layout changes and searches
Spec == Init /\ [][Next]_vars

NextAPI ==
  \/ Next
  \/ \E g \in Groups : \E r \in ChildrenOf(Machine, g) : AddRow(g, r)
  \/ \E g \in Groups : \E r \in ChildrenOf(Machine, g) : RemoveRow(g, r)

\* The same, with the groups' add and remove called from outside
SpecAPI == InitWith({"X", "Y"}, {<<"C">>}) /\ [][NextAPI]_vars

NextDestroy ==
  \/ Next
  \/ \E r \in DOMAIN rows : \E unmapFires \in BOOLEAN : DestroyRow(r, unmapFires)

\* The same, with rows being destroyed
SpecDestroy == InitWith({"X"}, {<<"C">>}) /\ [][NextDestroy]_vars

\* A group is told directly that nothing is selected
GroupCleared(g) ==
  /\ calls < MaxCalls
  /\ Commit(GroupOnWidgetChange(Machine, g, None), "on_widget_change", g)

NextGroup ==
  \/ Next
  \/ \E g \in Groups : GroupCleared(g)

\* The same, with on_widget_change(None) called on single groups
SpecGroup == InitWith({"X", "Z"}, {<<"C">>}) /\ [][NextGroup]_vars

\* The editor of row r reports a value to the row's callback, the apply of
\* the group that acquired it; the widget accepts the value or rejects it
Edited(r, value, rejects) ==
  /\ calls < MaxCalls
  /\ ~rows[r].destroyed
  /\ rows[r].on_change # None
  /\ Commit(GroupApply(Machine, rows[r].on_change, rows[r].name, value, rejects),
            "apply", rows[r].on_change)

NextApply ==
  \/ Next
  \/ \E r \in DOMAIN rows : \E value \in Values : \E rejects \in BOOLEAN :
       Edited(r, value, rejects)

\* The same, with rows being edited
SpecApply == InitWith({"X", "Z"}, {<<"C">>}) /\ [][NextApply]_vars

\* Selections of objects that lack an identity, properties or a layout
SpecMissing == InitWith({"X", "V", "U", "W"}, {<<"C">>}) /\ [][Next]_vars

\* ---------------------------------------------------------------------
\* Properties
\* ---------------------------------------------------------------------
InItems(r) == \E g \in Groups : r \in Range(items[g])
Shown(r) == InItems(r) /\ Mapped(Machine, r)
Deselected == op.name = "styles_for" /\ op.arg = None

\* The definitions group g fetches for object o
GroupDefs(g, o) ==
  CASE g = "Identity" -> Identity(o)
    [] g = "Attribute" -> IF HasProperties(o) THEN Properties(o) ELSE << >>
    [] g = "Layout" -> DefinitionFor(o, layoutOf[o])

\* Group g holds one row per definition of o, each bound to o's value
ShowsValuesOf(g, o) ==
  LET defs == GroupDefs(g, o)
  IN /\ DOMAIN items[g] = Names(defs)
     /\ \A i \in DOMAIN defs : rows[items[g][defs[i].name]].value = defs[i].value

\* C1: every row acquire returned in the last operation was either built by
\* that call or was the pool's entry for exactly that scope and name with
\* is_available true when the call was made; none was unavailable and none
\* was a member of a group's items at that moment.
C1_ReuseCorrectness ==
  \A a \in acquired :
    /\ a.fresh \/ (a.registered /\ a.available)
    /\ a.available
    /\ ~a.shown

\* One rebuild reused a pooled row and built another one
C1_Witness ==
  /\ \E a \in acquired : ~a.fresh /\ a.registered
  /\ \E a \in acquired : a.fresh

\* C2 as stated: after a completed operation a row is available exactly when
\* it is in no group's items.
C2_AvailableIffNotInItems ==
  ~op.raised => \A r \in DOMAIN rows : rows[r].is_available <=> ~InItems(r)

\* C2, amended: a row is available exactly when it is not on screen, and a
\* row on screen is always a member of its group's items; a member of items
\* that a search query or a collapsed group hides is available.
C2_AvailableIffNotShown ==
  \A r \in DOMAIN rows :
    /\ rows[r].is_available <=> ~Shown(r)
    /\ Mapped(Machine, r) => InItems(r)

\* A search hid a row that stays in items, next to one still on screen
C2_Witness ==
  /\ op.name = "on_search_query"
  /\ \E r \in DOMAIN rows : InItems(r) /\ rows[r].is_available
  /\ \E r \in DOMAIN rows : InItems(r) /\ ~rows[r].is_available

\* C3: whenever can_optimize answered true, the definitions just fetched
\* have the key set of those the group was last populated with, which is
\* the key set of the group's items.
C3_OptimizationSafety ==
  \A e \in evaluated :
    e.result => e.is_dict /\ e.keys = e.prev_keys /\ e.keys = e.item_keys

\* C4: after a completed on_widget_change for an object, on either path, the
\* keys of the group's items are among the keys of the definitions fetched.
C4_ItemsWithinDefinitions ==
  \A c \in completed : DOMAIN items[c.group] \subseteq c.keys

\* A class change rebuilt the Attribute group while Identity took the fast path
C4_Witness ==
  /\ \E c \in completed : /\ c.group = "Attribute" /\ ~c.fast
                          /\ c.keys = {"weight", "color"}
                          /\ "size" \in DOMAIN pool["Attribute"]
  /\ \E c \in completed : c.fast

\* C5: a destroyed row is no longer reachable from the pool of its scope.
C5_DestroyedLeavesPool ==
  \A r \in DOMAIN rows :
    rows[r].destroyed => r \notin Range(pool[rows[r].parent])

\* C6: every row in pool[S] was constructed with parent S, no row is in the
\* items of two groups, and every row acquire returned for a scope was
\* constructed under that scope.
C6_ScopeIsolation ==
  /\ \A g \in Groups : \A k \in DOMAIN pool[g] :
       pool[g][k][1] = g /\ rows[pool[g][k]].parent = g
  /\ \A r \in DOMAIN rows :
       Cardinality({g \in Groups : r \in Range(items[g])}) <= 1
  /\ \A a \in acquired : a.row[1] = a.scope /\ rows[a.row].parent = a.scope

\* A row was reused while another scope pooled an available row of that name
C6_Witness ==
  \E a \in acquired :
    /\ ~a.fresh
    /\ \E g \in Groups \ {a.scope} :
         /\ a.name \in DOMAIN pool[g]
         /\ rows[pool[g][a.name]].is_available

\* C7: at most one row is ever constructed for a (group, name), and the
\* pool's entry for it is that row, never replaced by a second one.
C7_OneRowPerKey ==
  \A r \in DOMAIN rows :
    /\ r[3] = 1
    /\ r[2] \in DOMAIN pool[r[1]]
    /\ pool[r[1]][r[2]] = r

\* Every name of every group has its row, and the last rebuild reused one
C7_Witness ==
  /\ Cardinality(DOMAIN rows) = 7
  /\ \E a \in acquired : ~a.fresh

C10_ReselectConstructsNothing ==
  [][/\ (Len(trail') = 2 /\ trail'[2] = None) => items' = items
     /\ Len(trail') = 3
        => /\ items' = items
           /\ DOMAIN rows' = DOMAIN rows
           /\ \A g \in Groups : ShowsValuesOf(g, trail[1])']_vars

\* X was selected, deselected and selected again
C10_Witness ==
  /\ trail = <<"X", None, "X">>
  /\ \A g \in Groups : items[g] # EmptyMap

\* C11: on_widget_change(None) on a group that has no object and no rows
\* completes normally and changes nothing: no row of the group is on screen,
\* and the pool, the items, _prev_widget and _has_initialized are as before.
C11_IdempotentClear ==
  [][\A g \in Groups :
       (/\ op'.name = "on_widget_change"
        /\ op'.arg = g
        /\ widget[g] = None
        /\ items[g] = EmptyMap)
       => /\ ~op'.raised
          /\ pool' = pool
          /\ items' = items
          /\ prev_widget' = prev_widget
          /\ has_initialized' = has_initialized
          /\ \A r \in ChildrenOf(Machine, g)' : ~Mapped(Machine, r)']_vars

\* The rows of the groups' items whose group is not collapsed
Showable == {r \in DOMAIN rows : InItems(r) /\ ~collapsed[rows[r].parent]}

\* C12 as stated: on_search_clear after one or more on_search_query calls
\* puts back on screen exactly the rows that were there before the first of
\* these queries, and neither a query nor the clear changes items or the pool.
C12_FilterRoundTrip ==
  [][/\ (op'.name = "on_search_clear" /\ op.name = "on_search_query")
        => VisibleRows(Machine)' = filtered_from
     /\ op'.name \in {"on_search_query", "on_search_clear"}
        => items' = items /\ pool' = pool]_vars

\* C12, amended: on_search_clear puts on screen every row of the items of
\* every group that is not collapsed, whatever was on screen before; these
\* are the rows that were on screen before the queries when no row of items
\* was hidden then. Neither a query nor the clear changes items or the pool.
C12_ClearShowsAllItems ==
  [][/\ op'.name = "on_search_clear" => VisibleRows(Machine)' = Showable'
     /\ (/\ op'.name = "on_search_clear"
         /\ op.name = "on_search_query"
         /\ Showable \subseteq filtered_from)
        => VisibleRows(Machine)' = filtered_from
     /\ op'.name \in {"on_search_query", "on_search_clear"}
        => items' = items /\ pool' = pool]_vars

\* A clear after queries brought back the rows on screen before them
C12_Witness ==
  /\ op.name = "on_search_clear"
  /\ Cardinality(filtered_from) >= 5
  /\ VisibleRows(Machine) = filtered_from

Invoked(g) == \E i \in DOMAIN invoked : invoked[i] = g

\* C14: during styles_for of a present object a group that raises stops
\* neither the other groups, which are all called, nor styles_for, which
\* returns normally.
C14_FailureIsolation ==
  (op.name = "styles_for" /\ op.arg # None)
  => /\ ~op.raised
     /\ \A g \in Groups : Invoked(g)

\* Object o exposes nothing for group g
Missing(g, o) ==
  CASE g = "Identity" -> ~HasIdentity(o)
    [] g = "Attribute" -> ~HasProperties(o)
    [] g = "Layout" -> ~HasLayout(o)

\* Group g completed an update for o with nothing to show
EndsEmpty(g, o) ==
  /\ \E c \in completed : c.group = g /\ c.widget = o /\ c.keys = {}
  /\ items[g] = EmptyMap
  /\ \A r \in ChildrenOf(Machine, g) : ~Mapped(Machine, r)
  /\ has_initialized[g]
  /\ prev_widget[g] = o

\* C15: a group called for a present object that exposes nothing for it
\* completes without raising, with empty items, no row on screen, and
\* _has_initialized and _prev_widget updated.
C15_MissingIsEmpty ==
  (op.name = "styles_for" /\ op.arg # None)
  => \A g \in Groups : (Invoked(g) /\ Missing(g, op.arg)) => EndsEmpty(g, op.arg)

\* C16: an apply whose write raised returns normally and leaves the items
\* and the pool as they were, and it sent something to logging exactly when
\* the value was not the empty string.
C16_EmptyValueNotLogged ==
  [][\A a \in applied' :
       a.rejected => /\ ~op'.raised
                     /\ items' = items
                     /\ pool' = pool
                     /\ (a.entries > 0 <=> a.value # "")]_vars

\* C17: in every _re_purposed call the row's callback is None while its
\* name, value and label are assigned, and at the return it is the callback
\* given to the call, or the one the row had before when none was given.
C17_RePurposeProtocol ==
  \A b \in rebound :
    /\ b.during = {None}
    /\ b.after = IF b.supplied # None THEN b.supplied ELSE b.before

\* A rebuild re-purposed a row with a callback and a fast path one without
C17_Witness ==
  /\ \E b \in rebound : b.supplied # None /\ b.after = b.supplied
  /\ \E b \in rebound : b.supplied = None /\ b.after = b.before
                          /\ b.before # None

\* The table of optimization predicates, for group g about to show object o
Table(g, o) ==
  CASE g = "Identity" -> has_initialized[g]
    [] g = "Attribute" ->
         has_initialized[g] /\ ClassOf(o) = ClassOf(prev_widget[g])
    [] g = "Layout" ->
         /\ has_initialized[g]
         /\ layoutOf[o] = prev_layout
         /\ o = prev_widget[g]

\* C18: every can_optimize evaluated by an operation answered what the table
\* gives for the group as it was when the operation began; in particular a
\* group that had never been populated did not take the fast path.
C18_PredicatesMatchTable ==
  [][\A e \in evaluated' :
       /\ e.result = Table(e.group, e.widget)
       /\ ~has_initialized[e.group] => ~e.result]_vars

\* The Layout group took the fast path for the object it already showed
C18_Witness ==
  /\ \E e \in evaluated : e.group = "Layout" /\ e.result
  /\ \E e \in evaluated : e.group = "Attribute" /\ e.result
  /\ has_initialized["Layout"]

\* C19: after on_search_query(q) a row of a group's items is packed exactly
\* when q occurs in the label of the definition the row was last constructed
\* or re-purposed with.
C19_FilterOnBoundLabel ==
  (op.name = "on_search_query" /\ ~op.raised)
  => \A g \in Groups : \A r \in Range(items[g]) :
       rows[r].packed <=> Contains(op.arg, rows[r].label)

\* C20: whenever can_optimize answered true for fetched definitions, the
\* fast path left the group with the keys, the keys on screen, the value and
\* label of each key and the availability of each row that the rebuild path
\* would have left from the same state.
C20_FastPathIsRebuild ==
  \A e \in evaluated : e.result => e.same

====
